---- MODULE Spec2Model ----
(***************************************************************************)
(* Model of crates/reqwest_client/src/reqwest_client.rs:                   *)
(*   - StreamReader / poll_read_buf: the adapter that turns an AsyncRead   *)
(*     into a stream of byte chunks (request bodies);                      *)
(*   - ReqwestClient: construction (inline or bridged through a background *)
(*     tokio thread) and send.                                             *)
(***************************************************************************)
EXTENDS Integers, Sequences, FiniteSets, TLC

(***************************************************************************)
(* Bounds of the model.                                                    *)
(***************************************************************************)
MaxLen == 3      \* longest byte source
MaxPulls == 4    \* pulls made on one StreamReader
MaxReqs == 2     \* send calls made on one transport
MaxLimit == 2    \* largest n of a RedirectPolicy::FollowLimit(n)
MaxRedirects == 3 \* longest short redirect chain a server issues
MaxTimeout == 2  \* longest ReadTimeout, in time units
MaxDelay == 3    \* longest delay of the first response byte, in time units
MaxItems == 2    \* items of a response byte stream
MaxReads == 3    \* reads a caller makes on a response body
MaxHeaders == 3  \* header lines of a response
MaxAgent == 2    \* bytes of a user-agent string

(***************************************************************************)
(* Program constants.                                                      *)
(***************************************************************************)
DEFAULT_CAPACITY == 4096

SrcBytes == {1, 2}         \* byte values a source holds (0 is what zeroing writes)
IoErrors == {"e1", "e2"}   \* distinct io::Error values a source can report

VARIABLES
    \* ---- StreamReader and the source it wraps ----
    src,        \* the bytes of the wrapped source
    pos,        \* bytes the source has handed out so far
    reader,     \* StreamReader.reader: "Some" or "None"
    buf,        \* StreamReader.buf: [len, cap] of the BytesMut
    log,        \* one record per poll_next call: the read made, the spare
                \* capacity it was given, and the item returned
    \* ---- ReqwestClient and its background thread ----
    transport,  \* the ReqwestClient value: "alive" or "dropped"; "none" before a
                \* constructor has run, "failed" when it returned an error
    tokio_tx,   \* ReqwestClient.tokio_tx: "Some" or "None"
    thread,     \* the spawned thread: "None", "starting", "running", "exitedOk", "exitedErr"
    receiver,   \* the mpsc receiver the thread owns: "None", "alive", "dropped"
    queue,      \* messages in the mpsc channel: (request, one-shot sender)
    tasks,      \* tasks spawned on the background runtime, in spawn order
    fut,        \* per send call: where its future stands
    chan,       \* per send call: the one-shot reply channel it created
    result,     \* per send call: what its future resolved with
    sends,      \* per one-shot channel: how many times a reply was sent into it
    has_tokio,  \* whether a tokio runtime was current where the client was built
    ctor,       \* the constructor call that made the client, with its arguments
    engine,     \* per send call: engine calls made inline / on the bridge, last result
    \* ---- one request on its way through send ----
    request,    \* the http::Request handed to send: extensions and body
    native,     \* the reqwest request send builds from it
    cursor,     \* SyncReader.cursor: "Some" or "None"
    exchange,   \* what the server did and what the engine made of it
    output,     \* what the send future returned
    stage,      \* "new", "built", "answered", "resolved"
    \* ---- the response body ----
    resp,       \* the engine's response byte stream: items left, items pulled
    envBody,    \* the envelope's body: state of the reader over that stream
    reads,      \* what each read of the envelope's body returned
    head,       \* the engine response's status and header map
    envHead     \* the envelope's status and header map

streamVars == <<src, pos, reader, buf, log>>

bridgeVars == <<transport, tokio_tx, thread, receiver, queue, tasks, fut, chan,
                result, sends, has_tokio, ctor, engine>>

requestVars == <<request, native, cursor, exchange, output, stage>>

responseVars == <<resp, envBody, reads, head, envHead>>

vars == <<src, pos, reader, buf, log, transport, tokio_tx, thread, receiver,
          queue, tasks, fut, chan, result, sends, has_tokio, ctor, engine,
          request, native, cursor, exchange, output, stage, resp, envBody, reads,
          head, envHead>>

(***************************************************************************)
(* Values.                                                                 *)
(***************************************************************************)
RECURSIVE SeqsUpTo(_)
SeqsUpTo(n) ==
    IF n = 0 THEN {<<>>}
    ELSE LET S == SeqsUpTo(n - 1)
         IN S \cup {Append(s, b) : s \in {t \in S : Len(t) = n - 1}, b \in SrcBytes}

Min(a, b) == IF a < b THEN a ELSE b

Pending == [tag |-> "Pending"]
ReadyNone == [tag |-> "None"]
ReadyErr(e) == [tag |-> "Err", err |-> e]
ReadyOk(n) == [tag |-> "Ok", n |-> n]
ReadyChunk(c) == [tag |-> "Chunk", chunk |-> c]
NoRead == [tag |-> "NoRead"]

(***************************************************************************)
(* The wrapped source: futures::AsyncRead::poll_read(cx, dst) over a       *)
(* finite byte source.  It may be not ready, fail, or write k bytes at the *)
(* front of dst and report k (k = 0 exactly at end of input).              *)
(***************************************************************************)
PollReadOutcomes(dstLen) ==
    {[tag |-> "Pending"]}
    \cup {[tag |-> "Err", err |-> e] : e \in IoErrors}
    \cup IF pos = Len(src)
         THEN {[tag |-> "Ok", k |-> 0, bytes |-> <<>>]}
         ELSE {[tag |-> "Ok", k |-> k, bytes |-> SubSeq(src, pos + 1, pos + k)] :
                  k \in 1..Min(dstLen, Len(src) - pos)}

(***************************************************************************)
(* tokio::io::ReadBuf, as poll_read_buf uses it.                           *)
(***************************************************************************)
ReadBufUninit(n) == [filled |-> 0, initialized |-> 0, capacity |-> n]

\* initialize_unfilled(): zeroes the unfilled part and returns it as a slice;
\* the filled cursor does not move.
InitializeUnfilled(rb) == [rb EXCEPT !.initialized = rb.capacity]

\* The source writes k bytes through the slice and returns k; the returned
\* count is discarded by `ready!(...?)` and nothing advances the ReadBuf.
ReadBufAfterPollRead(rb, k) == rb

\* buf.filled().len()
FilledLen(rb) == rb.filled

(***************************************************************************)
(* BytesMut operations.                                                    *)
(***************************************************************************)
BytesMutNew == [len |-> 0, cap |-> 0]

\* BytesMut::has_remaining_mut: remaining_mut() is usize::MAX - len
HasRemainingMut(b) == TRUE

\* buf.chunk_mut(): the spare capacity, grown by 64 when there is none
ChunkMutLen(b) == IF b.cap = b.len THEN 64 ELSE b.cap - b.len

\* buf.reserve(capacity) when buf.capacity() == 0
ReserveIfEmpty(b, capacity) ==
    IF b.cap = 0 THEN [b EXCEPT !.cap = capacity] ELSE b

\* buf.advance_mut(n)
AdvanceMut(b, n) == [b EXCEPT !.len = @ + n]

\* buf.split(): the filled bytes leave as a chunk, the rest of the
\* allocation stays behind as spare capacity.
SplitRest(b) == [len |-> 0, cap |-> b.cap - b.len]

\* The chunk split off: the first b.len bytes of the memory the read
\* wrote into, which holds the source's bytes followed by zeroes.
SplitChunk(b, written) ==
    [i \in 1..b.len |-> IF i <= Len(written) THEN written[i] ELSE 0]

(***************************************************************************)
(* poll_read_buf(io, cx, buf), given the outcome `out` of the source's     *)
(* poll_read.  Returns the Poll result and the buffer afterwards.          *)
(***************************************************************************)
poll_read_buf(b, out) ==
    IF ~HasRemainingMut(b)
    THEN [ret |-> ReadyOk(0), buf |-> b]
    ELSE LET rb0 == InitializeUnfilled(ReadBufUninit(ChunkMutLen(b)))
         IN CASE out.tag = "Pending" -> [ret |-> Pending, buf |-> b]
              [] out.tag = "Err" -> [ret |-> ReadyErr(out.err), buf |-> b]
              [] OTHER ->
                   LET n == FilledLen(ReadBufAfterPollRead(rb0, out.k))
                   IN [ret |-> ReadyOk(n), buf |-> AdvanceMut(b, n)]

(***************************************************************************)
(* StreamReader::poll_next.                                                *)
(***************************************************************************)
\* variant: the Err arm stores the reader back instead of dropping it
ReaderAfter_KeepOnErr(ret) ==
    CASE ret.tag = "Pending" -> "None"
      [] ret.tag = "Err" -> "Some"
      [] ret.tag = "Ok" /\ ret.n = 0 -> "None"
      [] OTHER -> "Some"

\* variant: the Ok(0) arm stores the reader back instead of dropping it
ReaderAfter_KeepOnEof(ret) ==
    CASE ret.tag = "Pending" -> "None"
      [] ret.tag = "Err" -> "None"
      [] OTHER -> "Some"

\* self.reader when poll_next returns.  The reader was moved out of self by
\* take(); only the Ok(n > 0) arm stores it back.
ReaderAfter(ret) ==
    CASE ret.tag = "Pending" -> "None"
      [] ret.tag = "Err" -> "None"
      [] ret.tag = "Ok" /\ ret.n = 0 -> "None"
      [] OTHER -> "Some"

\* variant: the Ok(0) arm splits off a chunk as the Ok(n) arm does
ItemOf_EmptyChunk(ret, b, written) ==
    CASE ret.tag = "Pending" -> Pending
      [] ret.tag = "Err" -> ReadyErr(ret.err)
      [] OTHER -> ReadyChunk(SplitChunk(b, written))

\* variant: the Err arm builds a fresh error instead of passing `err` on
ItemOf_FreshErr(ret, b, written) ==
    CASE ret.tag = "Pending" -> Pending
      [] ret.tag = "Err" -> ReadyErr("e1")
      [] ret.tag = "Ok" /\ ret.n = 0 -> ReadyNone
      [] OTHER -> ReadyChunk(SplitChunk(b, written))

\* the Poll value poll_next returns
ItemOf(ret, b, written) ==
    CASE ret.tag = "Pending" -> Pending
      [] ret.tag = "Err" -> ReadyErr(ret.err)
      [] ret.tag = "Ok" /\ ret.n = 0 -> ReadyNone
      [] OTHER -> ReadyChunk(SplitChunk(b, written))

\* self.buf when poll_next returns
BufAfter(ret, b) ==
    IF ret.tag = "Ok" /\ ret.n # 0 THEN SplitRest(b) ELSE b

poll_next ==
    /\ Len(log) < MaxPulls
    /\ IF reader = "None"
       THEN /\ log' = Append(log, [read |-> NoRead, ret |-> NoRead, adv |-> 0,
                                   spare |-> 0, item |-> ReadyNone])
            /\ UNCHANGED <<src, pos, reader, buf>>
       ELSE LET b1 == ReserveIfEmpty(buf, DEFAULT_CAPACITY)
            IN \E out \in PollReadOutcomes(ChunkMutLen(b1)) :
                  LET r == poll_read_buf(b1, out)
                      written == IF out.tag = "Ok" THEN out.bytes ELSE <<>>
                  IN /\ pos' = IF out.tag = "Ok" THEN pos + out.k ELSE pos
                     /\ reader' = ReaderAfter(r.ret)
                     /\ buf' = BufAfter(r.ret, r.buf)
                     /\ log' = Append(log, [read |-> out, ret |-> r.ret,
                                            adv |-> r.buf.len - b1.len,
                                            spare |-> ChunkMutLen(b1),
                                            item |-> ItemOf(r.ret, r.buf, written)])
                     /\ UNCHANGED src
    /\ UNCHANGED bridgeVars
    /\ UNCHANGED requestVars
    /\ UNCHANGED responseVars

(***************************************************************************)
(* ReqwestClient.  Requests are numbered 1..MaxReqs in the order send is   *)
(* called; request r creates one-shot channel r.                           *)
(***************************************************************************)
Reqs == 1..MaxReqs

NoVal == [tag |-> "NoVal"]

\* what the engine's send produces for a request: a response or an error,
\* either one belonging to that request
EngineResults(req) ==
    {[tag |-> "Response", forReq |-> req], [tag |-> "ReqwestError", forReq |-> req]}

\* `tokio_tx.unbounded_send(..)?`: the TrySendError becomes the anyhow error
\* the future returns
FromTrySendError == [tag |-> "SendError"]

\* `rx.await?`: oneshot::Canceled becomes the anyhow error the future returns
FromCanceled == [tag |-> "Canceled"]

\* variant: an engine error is answered with an (empty) success envelope
ResolveWith_Swallow(reply) == [tag |-> "Ok", forReq |-> reply.forReq]

\* what the future returns for the engine's reply: `.map_err(|e| anyhow!(e))?`
\* passes an engine error on, a response is rebuilt as the envelope
ResolveWith(reply) ==
    IF reply.tag = "Response"
    THEN [tag |-> "Ok", forReq |-> reply.forReq]
    ELSE [reply EXCEPT !.tag = "EngineErr"]

NoChan == [tx |-> "none", rx |-> "none", val |-> NoVal]

\* no engine call made yet for a request
NoEngine == [inline |-> 0, bridge |-> 0, res |-> NoVal]

\* variant: without a runtime the channel is created but no thread spawned
ClientFrom_SenderOnly(tokio_current) ==
    IF tokio_current
    THEN [tokio_tx |-> "None", thread |-> "None", receiver |-> "None"]
    ELSE [tokio_tx |-> "Some", thread |-> "None", receiver |-> "alive"]

\* variant: the bridge is set up whether or not a runtime is current
ClientFrom_AlwaysBridge(tokio_current) ==
    [tokio_tx |-> "Some", thread |-> "starting", receiver |-> "alive"]

\* From<reqwest::Client>::from: with a tokio runtime in the constructing
\* context there is no bridge; otherwise a channel and a thread are created.
ClientFrom(tokio_current) ==
    IF tokio_current
    THEN [tokio_tx |-> "None", thread |-> "None", receiver |-> "None"]
    ELSE [tokio_tx |-> "Some", thread |-> "starting", receiver |-> "alive"]

\* bytes a user-agent string may hold: tab, line feed, 'A', DEL
AgentBytes == {9, 10, 65, 127}

RECURSIVE Agents(_)
Agents(n) ==
    IF n = 0 THEN {<<>>}
    ELSE LET S == Agents(n - 1)
         IN S \cup {Append(a, b) : a \in {x \in S : Len(x) = n - 1}, b \in AgentBytes}

\* the calls that construct a ReqwestClient
Constructors ==
    {[fn |-> "new", agent |-> <<>>]}
    \cup [fn : {"user_agent", "proxy_and_user_agent"}, agent : Agents(MaxAgent)]

\* variant: any string is taken as a header value
HeaderValueFromStr_Lenient(agent) == [tag |-> "Ok", value |-> agent]

\* HeaderValue::from_str(agent): fails on a byte that is neither a tab nor
\* at least 32 and other than 127
HeaderValueFromStr(agent) ==
    IF \A i \in DOMAIN agent : (agent[i] >= 32 /\ agent[i] # 127) \/ agent[i] = 9
    THEN [tag |-> "Ok", value |-> agent]
    ELSE [tag |-> "InvalidHeaderValue"]

\* ReqwestClient::new, user_agent, proxy_and_user_agent: the last two
\* return early, through `?`, when the header value is invalid or the
\* engine client cannot be built; otherwise the engine client is converted
Construct ==
    /\ transport = "none"
    /\ \E builds \in BOOLEAN :
          IF \/ ctor.fn = "new"
             \/ HeaderValueFromStr(ctor.agent).tag = "Ok" /\ builds
          THEN /\ transport' = "alive"
               /\ tokio_tx' = ClientFrom(has_tokio).tokio_tx
               /\ thread' = ClientFrom(has_tokio).thread
               /\ receiver' = ClientFrom(has_tokio).receiver
          ELSE /\ transport' = "failed"
               /\ UNCHANGED <<tokio_tx, thread, receiver>>
    /\ UNCHANGED <<queue, tasks, fut, chan, result, sends>>
    /\ UNCHANGED <<has_tokio, ctor, engine>>
    /\ UNCHANGED streamVars
    /\ UNCHANGED requestVars
    /\ UNCHANGED responseVars

\* variant: send futures borrow the transport's sender instead of cloning it
NumSenders_TransportOnly ==
    IF transport = "alive" /\ tokio_tx = "Some" THEN 1 ELSE 0

\* variant: the thread closure keeps a clone of the sender for itself
NumSenders_ThreadClone ==
    (IF thread \in {"starting", "running"} THEN 1 ELSE 0)
    + (IF transport = "alive" /\ tokio_tx = "Some" THEN 1 ELSE 0)
    + Cardinality({r \in Reqs : tokio_tx = "Some" /\ fut[r] \in {"created", "awaiting"}})

\* senders of the mpsc channel that are alive: the transport's own and the
\* clone every unfinished send future holds
NumSenders ==
    (IF transport = "alive" /\ tokio_tx = "Some" THEN 1 ELSE 0)
    + Cardinality({r \in Reqs : tokio_tx = "Some" /\ fut[r] \in {"created", "awaiting"}})

\* dropping a one-shot sender that was never used
DropTx(c) == IF c.tx = "alive" THEN [c EXCEPT !.tx = "dropped"] ELSE c

\* dropping the messages left in the channel drops their one-shot senders
DropQueued(ch, q) ==
    [c \in Reqs |-> IF \E i \in 1..Len(q) : q[i].chan = c THEN DropTx(ch[c]) ELSE ch[c]]

\* variant: send itself creates the one-shot channel and enqueues
Send_Eager ==
    /\ transport = "alive"
    /\ \E r \in Reqs :
          /\ fut[r] = "none"
          /\ \A q \in Reqs : q < r => fut[q] # "none"
          /\ fut' = [fut EXCEPT ![r] = "created"]
          /\ IF tokio_tx = "Some" /\ receiver = "alive"
             THEN /\ queue' = Append(queue, [req |-> r, chan |-> r])
                  /\ chan' = [chan EXCEPT ![r] = [tx |-> "alive", rx |-> "alive",
                                                  val |-> NoVal]]
             ELSE UNCHANGED <<queue, chan>>
    /\ UNCHANGED <<transport, tokio_tx, thread, receiver, tasks, result, sends>>
    /\ UNCHANGED <<has_tokio, ctor, engine>>
    /\ UNCHANGED streamVars
    /\ UNCHANGED requestVars
    /\ UNCHANGED responseVars

\* HttpClient::send: builds the request and returns the (unpolled) future,
\* which holds a clone of tokio_tx
Send ==
    /\ transport = "alive"
    /\ \E r \in Reqs :
          /\ fut[r] = "none"
          /\ \A q \in Reqs : q < r => fut[q] # "none"
          /\ fut' = [fut EXCEPT ![r] = "created"]
    /\ UNCHANGED <<transport, tokio_tx, thread, receiver, queue, tasks, chan,
                   result, sends>>
    /\ UNCHANGED <<has_tokio, ctor, engine>>
    /\ UNCHANGED streamVars
    /\ UNCHANGED requestVars
    /\ UNCHANGED responseVars

\* variant: when the enqueue fails the request is sent inline instead
FutPollSend_Fallback(r) ==
    /\ fut[r] = "created"
    /\ tokio_tx = "Some"
    /\ IF receiver = "alive"
       THEN /\ queue' = Append(queue, [req |-> r, chan |-> r])
            /\ chan' = [chan EXCEPT ![r] = [tx |-> "alive", rx |-> "alive", val |-> NoVal]]
            /\ fut' = [fut EXCEPT ![r] = "awaiting"]
            /\ UNCHANGED engine
       ELSE /\ chan' = [chan EXCEPT ![r] = [tx |-> "dropped", rx |-> "dropped", val |-> NoVal]]
            /\ fut' = [fut EXCEPT ![r] = "inline"]
            /\ engine' = [engine EXCEPT ![r].inline = @ + 1]
            /\ UNCHANGED queue
    /\ UNCHANGED <<transport, tokio_tx, thread, receiver, tasks, sends, result, has_tokio, ctor>>
    /\ UNCHANGED streamVars
    /\ UNCHANGED requestVars
    /\ UNCHANGED responseVars

\* first poll of the future, bridged: create the one-shot channel and
\* enqueue (request, tx); a failed enqueue resolves the future with an error
FutPollSend(r) ==
    /\ fut[r] = "created"
    /\ tokio_tx = "Some"
    /\ IF receiver = "alive"
       THEN /\ queue' = Append(queue, [req |-> r, chan |-> r])
            /\ chan' = [chan EXCEPT ![r] = [tx |-> "alive", rx |-> "alive", val |-> NoVal]]
            /\ fut' = [fut EXCEPT ![r] = "awaiting"]
            /\ UNCHANGED result
       ELSE /\ chan' = [chan EXCEPT ![r] = [tx |-> "dropped", rx |-> "dropped", val |-> NoVal]]
            /\ fut' = [fut EXCEPT ![r] = "resolved"]
            /\ result' = [result EXCEPT ![r] = FromTrySendError]
            /\ UNCHANGED queue
    /\ UNCHANGED <<transport, tokio_tx, thread, receiver, tasks, sends>>
    /\ UNCHANGED <<has_tokio, ctor, engine>>
    /\ UNCHANGED streamVars
    /\ UNCHANGED requestVars
    /\ UNCHANGED responseVars

\* variant: rx.await is ready only once a reply was sent
FutPollRecv_IgnoreCancel(r) ==
    /\ fut[r] = "awaiting"
    /\ chan[r].val # NoVal
    /\ result' = [result EXCEPT ![r] = ResolveWith(chan[r].val)]
    /\ chan' = [chan EXCEPT ![r] = [@ EXCEPT !.rx = "dropped", !.val = NoVal]]
    /\ fut' = [fut EXCEPT ![r] = "resolved"]
    /\ UNCHANGED <<transport, tokio_tx, thread, receiver, queue, tasks, sends>>
    /\ UNCHANGED <<has_tokio, ctor, engine>>
    /\ UNCHANGED streamVars
    /\ UNCHANGED requestVars
    /\ UNCHANGED responseVars

\* a later poll, bridged: rx.await is ready once a reply was sent or the
\* one-shot sender was dropped
FutPollRecv(r) ==
    /\ fut[r] = "awaiting"
    /\ chan[r].val # NoVal \/ chan[r].tx = "dropped"
    /\ result' = [result EXCEPT ![r] =
                     IF chan[r].val # NoVal THEN ResolveWith(chan[r].val) ELSE FromCanceled]
    /\ chan' = [chan EXCEPT ![r] = [@ EXCEPT !.rx = "dropped", !.val = NoVal]]
    /\ fut' = [fut EXCEPT ![r] = "resolved"]
    /\ UNCHANGED <<transport, tokio_tx, thread, receiver, queue, tasks, sends>>
    /\ UNCHANGED <<has_tokio, ctor, engine>>
    /\ UNCHANGED streamVars
    /\ UNCHANGED requestVars
    /\ UNCHANGED responseVars

\* variant: the engine call is made in the caller's context whether or not
\* the transport has a bridge
FutPollInline_Always(r) ==
    /\ fut[r] = "created"
    /\ fut' = [fut EXCEPT ![r] = "inline"]
    /\ UNCHANGED <<transport, tokio_tx, thread, receiver, queue, tasks, chan,
                   result, sends>>
    /\ engine' = [engine EXCEPT ![r].inline = @ + 1]
    /\ UNCHANGED <<has_tokio, ctor>>
    /\ UNCHANGED streamVars
    /\ UNCHANGED requestVars
    /\ UNCHANGED responseVars

\* first poll of the future, no bridge: request.send() runs in the caller's
\* context
FutPollInline(r) ==
    /\ fut[r] = "created"
    /\ tokio_tx = "None"
    /\ fut' = [fut EXCEPT ![r] = "inline"]
    /\ UNCHANGED <<transport, tokio_tx, thread, receiver, queue, tasks, chan,
                   result, sends>>
    /\ engine' = [engine EXCEPT ![r].inline = @ + 1]
    /\ UNCHANGED <<has_tokio, ctor>>
    /\ UNCHANGED streamVars
    /\ UNCHANGED requestVars
    /\ UNCHANGED responseVars

\* the inline engine call completes and the future resolves with its result
FutInlineDone(r) ==
    /\ fut[r] = "inline"
    /\ \E res \in EngineResults(r) :
          /\ result' = [result EXCEPT ![r] = ResolveWith(res)]
          /\ engine' = [engine EXCEPT ![r].res = res]
    /\ fut' = [fut EXCEPT ![r] = "resolved"]
    /\ UNCHANGED <<transport, tokio_tx, thread, receiver, queue, tasks, chan, sends>>
    /\ UNCHANGED <<has_tokio, ctor>>
    /\ UNCHANGED streamVars
    /\ UNCHANGED requestVars
    /\ UNCHANGED responseVars

\* the caller drops an unfinished future: its sender clone and its one-shot
\* receiver go with it
FutDrop(r) ==
    /\ fut[r] \in {"created", "awaiting", "inline"}
    /\ fut' = [fut EXCEPT ![r] = "dropped"]
    /\ chan' = [chan EXCEPT ![r] =
                   IF @.rx = "alive" THEN [@ EXCEPT !.rx = "dropped", !.val = NoVal] ELSE @]
    /\ UNCHANGED <<transport, tokio_tx, thread, receiver, queue, tasks, result, sends>>
    /\ UNCHANGED <<has_tokio, ctor, engine>>
    /\ UNCHANGED streamVars
    /\ UNCHANGED requestVars
    /\ UNCHANGED responseVars

\* the ReqwestClient is dropped: its tokio_tx and its JoinHandle go (the
\* thread is detached, not joined)
DropTransport ==
    /\ transport = "alive"
    /\ transport' = "dropped"
    /\ UNCHANGED <<tokio_tx, thread, receiver, queue, tasks, fut, chan, result, sends>>
    /\ UNCHANGED <<has_tokio, ctor, engine>>
    /\ UNCHANGED streamVars
    /\ UNCHANGED requestVars
    /\ UNCHANGED responseVars

\* variant: a thread that cannot build its runtime keeps the receiver and
\* what is queued
ThreadStart_KeepReceiver ==
    /\ thread = "starting"
    /\ \E built \in BOOLEAN :
          thread' = IF built THEN "running" ELSE "exitedErr"
    /\ UNCHANGED <<receiver, queue, chan>>
    /\ UNCHANGED <<transport, tokio_tx, tasks, fut, result, sends>>
    /\ UNCHANGED <<has_tokio, ctor, engine>>
    /\ UNCHANGED streamVars
    /\ UNCHANGED requestVars
    /\ UNCHANGED responseVars

\* thread body: build the current-thread runtime; on failure `?` returns
\* the error, which drops the receiver and whatever was queued
ThreadStart ==
    /\ thread = "starting"
    /\ \E built \in BOOLEAN :
          IF built
          THEN /\ thread' = "running"
               /\ UNCHANGED <<receiver, queue, chan>>
          ELSE /\ thread' = "exitedErr"
               /\ receiver' = "dropped"
               /\ chan' = DropQueued(chan, queue)
               /\ queue' = <<>>
    /\ UNCHANGED <<transport, tokio_tx, tasks, fut, result, sends>>
    /\ UNCHANGED <<has_tokio, ctor, engine>>
    /\ UNCHANGED streamVars
    /\ UNCHANGED requestVars
    /\ UNCHANGED responseVars

\* variant: the task is handed the reply channel of the neighbouring request
TaskFor_WrongChan(m) ==
    [req |-> m.req, chan |-> (m.chan % MaxReqs) + 1, st |-> "running",
     res |-> NoVal, sends |-> 0]

\* the task tokio::spawn creates for a received (request, response_channel)
TaskFor(m) == [req |-> m.req, chan |-> m.chan, st |-> "running", res |-> NoVal, sends |-> 0]

\* variant: the received message is left in the channel
QueueAfterRecv_NoPop(q) == q

\* the channel after reciever.next() returned its first message
QueueAfterRecv(q) == Tail(q)

\* variant: the loop takes the newest message of the channel, not the oldest
BgRecv_Lifo ==
    /\ thread = "running"
    /\ queue # <<>>
    /\ tasks' = Append(tasks, TaskFor(queue[Len(queue)]))
    /\ queue' = SubSeq(queue, 1, Len(queue) - 1)
    /\ UNCHANGED <<transport, tokio_tx, thread, receiver, fut, chan, result, sends>>
    /\ engine' = [engine EXCEPT ![queue[Len(queue)].req].bridge = @ + 1]
    /\ UNCHANGED <<has_tokio, ctor>>
    /\ UNCHANGED streamVars
    /\ UNCHANGED requestVars
    /\ UNCHANGED responseVars

\* variant: the loop awaits the request itself instead of spawning it, so
\* it receives the next message only when no request is outstanding
BgRecv_Serialized ==
    /\ thread = "running"
    /\ queue # <<>>
    /\ \A i \in DOMAIN tasks : tasks[i].st = "done"
    /\ tasks' = Append(tasks, TaskFor(Head(queue)))
    /\ queue' = QueueAfterRecv(queue)
    /\ UNCHANGED <<transport, tokio_tx, thread, receiver, fut, chan, result, sends>>
    /\ engine' = [engine EXCEPT ![Head(queue).req].bridge = @ + 1]
    /\ UNCHANGED <<has_tokio, ctor>>
    /\ UNCHANGED streamVars
    /\ UNCHANGED requestVars
    /\ UNCHANGED responseVars

\* receive loop: reciever.next() yields a message, which is spawned as a task
BgRecv ==
    /\ thread = "running"
    /\ queue # <<>>
    /\ tasks' = Append(tasks, TaskFor(Head(queue)))
    /\ queue' = QueueAfterRecv(queue)
    /\ UNCHANGED <<transport, tokio_tx, thread, receiver, fut, chan, result, sends>>
    /\ engine' = [engine EXCEPT ![Head(queue).req].bridge = @ + 1]
    /\ UNCHANGED <<has_tokio, ctor>>
    /\ UNCHANGED streamVars
    /\ UNCHANGED requestVars
    /\ UNCHANGED responseVars

\* reciever.next() yields None: every sender is gone and nothing is queued
ChannelClosed == queue = <<>> /\ NumSenders = 0

\* receive loop ends: block_on returns, the runtime is dropped with the
\* tasks still on it, the closure returns Ok(()) and drops the receiver
BgExit ==
    /\ thread = "running"
    /\ ChannelClosed
    /\ thread' = "exitedOk"
    /\ receiver' = "dropped"
    /\ tasks' = [i \in DOMAIN tasks |->
                    IF tasks[i].st \in {"running", "ready"}
                    THEN [tasks[i] EXCEPT !.st = "cancelled"] ELSE tasks[i]]
    /\ chan' = [c \in Reqs |->
                    IF \E i \in DOMAIN tasks :
                          tasks[i].chan = c /\ tasks[i].st \in {"running", "ready"}
                    THEN DropTx(chan[c]) ELSE chan[c]]
    /\ UNCHANGED <<transport, tokio_tx, queue, fut, result, sends>>
    /\ UNCHANGED <<has_tokio, ctor, engine>>
    /\ UNCHANGED streamVars
    /\ UNCHANGED requestVars
    /\ UNCHANGED responseVars

\* variant: an engine error makes the task send the request again
EngineDone_Retry(i) ==
    /\ thread = "running"
    /\ i \in DOMAIN tasks
    /\ tasks[i].st = "running"
    /\ \E res \in EngineResults(tasks[i].req) :
          IF res.tag = "ReqwestError" /\ engine[tasks[i].req].bridge < 2
          THEN /\ engine' = [engine EXCEPT ![tasks[i].req].bridge = @ + 1,
                                           ![tasks[i].req].res = res]
               /\ UNCHANGED tasks
          ELSE /\ tasks' = [tasks EXCEPT ![i] = [@ EXCEPT !.st = "ready", !.res = res]]
               /\ engine' = [engine EXCEPT ![tasks[i].req].res = res]
    /\ UNCHANGED <<transport, tokio_tx, thread, receiver, queue, fut, chan, result, sends>>
    /\ UNCHANGED <<has_tokio, ctor>>
    /\ UNCHANGED streamVars
    /\ UNCHANGED requestVars
    /\ UNCHANGED responseVars

\* request.send().await of task i completes with the engine's result
EngineDone(i) ==
    /\ thread = "running"
    /\ i \in DOMAIN tasks
    /\ tasks[i].st = "running"
    /\ \E res \in EngineResults(tasks[i].req) :
          tasks' = [tasks EXCEPT ![i] = [@ EXCEPT !.st = "ready", !.res = res]]
    /\ UNCHANGED <<transport, tokio_tx, thread, receiver, queue, fut, chan, result, sends>>
    /\ engine' = [engine EXCEPT ![tasks[i].req].res = tasks'[i].res]
    /\ UNCHANGED <<has_tokio, ctor>>
    /\ UNCHANGED streamVars
    /\ UNCHANGED requestVars
    /\ UNCHANGED responseVars

\* variant: the value is stored even when the receiver is gone
OneshotSend_StoreAlways(c, v) == [c EXCEPT !.tx = "used", !.val = v]

\* oneshot::Sender::send: the value is stored unless the receiver is gone;
\* the sender is consumed either way
OneshotSend(c, v) ==
    IF c.rx = "alive" THEN [c EXCEPT !.tx = "used", !.val = v]
    ELSE [c EXCEPT !.tx = "used"]

\* task i resumes: response_channel.send(result).ok(), and the task ends
TaskReply(i) ==
    /\ thread = "running"
    /\ i \in DOMAIN tasks
    /\ tasks[i].st = "ready"
    /\ chan' = [chan EXCEPT ![tasks[i].chan] = OneshotSend(@, tasks[i].res)]
    /\ sends' = [sends EXCEPT ![tasks[i].chan] = @ + 1]
    /\ tasks' = [tasks EXCEPT ![i] = [@ EXCEPT !.st = "done", !.sends = @ + 1]]
    /\ UNCHANGED <<transport, tokio_tx, thread, receiver, queue, fut, result>>
    /\ UNCHANGED <<has_tokio, ctor, engine>>
    /\ UNCHANGED streamVars
    /\ UNCHANGED requestVars
    /\ UNCHANGED responseVars

(***************************************************************************)
(* send, from the request it is given to the engine request it builds.     *)
(***************************************************************************)
NoExt == [k |-> "absent"]

\* parts.extensions.get::<RedirectPolicy>()
RedirectPolicies ==
    {NoExt, [k |-> "NoFollow"], [k |-> "FollowAll"]}
    \cup {[k |-> "FollowLimit", n |-> n] : n \in 0..MaxLimit}

\* parts.extensions.get::<ReadTimeout>()
ReadTimeouts == {NoExt} \cup {[k |-> "ReadTimeout", d |-> d] : d \in 1..MaxTimeout}

\* contents of a request body
BodySources == {s \in SeqsUpTo(MaxLen) : Len(s) <= 2 /\ \A i \in 1..Len(s) : s[i] = i}

\* http_client::Inner
Bodies ==
    {[k |-> "Empty", bytes |-> <<>>]}
    \cup {[k |-> "SyncReader", bytes |-> b] : b \in BodySources}
    \cup {[k |-> "AsyncReader", bytes |-> b] : b \in BodySources}

\* redirect limit FollowAll is given
FollowAllLimit == 100

\* variant: FollowAll is handed over with a limit one above FollowAllLimit
RedirectOption_FollowAllLoose(policy) ==
    CASE policy.k = "NoFollow" -> [k |-> "none"]
      [] policy.k = "FollowLimit" -> [k |-> "limited", n |-> policy.n]
      [] policy.k = "FollowAll" -> [k |-> "limited", n |-> FollowAllLimit + 1]
      [] OTHER -> [k |-> "unset"]

\* variant: the limit handed over is one more than asked for
RedirectOption_OneMore(policy) ==
    CASE policy.k = "NoFollow" -> [k |-> "none"]
      [] policy.k = "FollowLimit" -> [k |-> "limited", n |-> policy.n + 1]
      [] policy.k = "FollowAll" -> [k |-> "limited", n |-> FollowAllLimit]
      [] OTHER -> [k |-> "unset"]

\* request.redirect_policy(..), called only when the extension is present
RedirectOption(policy) ==
    CASE policy.k = "NoFollow" -> [k |-> "none"]
      [] policy.k = "FollowLimit" -> [k |-> "limited", n |-> policy.n]
      [] policy.k = "FollowAll" -> [k |-> "limited", n |-> FollowAllLimit]
      [] OTHER -> [k |-> "unset"]

\* variant: the timeout extension is read but not handed over
TimeoutOption_Dropped(t) == [k |-> "unset"]

\* request.timeout(*timeout), called only when the extension is present
TimeoutOption(t) ==
    IF t.k = "ReadTimeout" THEN [k |-> "timeout", d |-> t.d] ELSE [k |-> "unset"]

\* variant: every body, the empty one too, is wrapped in a StreamReader
NativeBody_AlwaysStream(body) ==
    CASE body.k = "SyncReader" -> [k |-> "stream", adapter |-> "SyncReader"]
      [] OTHER -> [k |-> "stream", adapter |-> "StreamReader"]

\* request.body(match body.0 { .. })
NativeBody(body) ==
    CASE body.k = "Empty" -> [k |-> "empty", adapter |-> "none"]
      [] body.k = "SyncReader" -> [k |-> "stream", adapter |-> "SyncReader"]
      [] OTHER -> [k |-> "stream", adapter |-> "StreamReader"]

\* variant: an extension entry of another type is taken for a timeout
NativeRequest_OtherAsTimeout(req) ==
    [redirect |-> RedirectOption(req.redirect),
     timeout |-> IF req.other /\ req.timeout = NoExt
                 THEN [k |-> "timeout", d |-> 1]
                 ELSE TimeoutOption(req.timeout),
     body |-> NativeBody(req.body)]

\* the reqwest request send builds
NativeRequest(req) ==
    [redirect |-> RedirectOption(req.redirect),
     timeout |-> TimeoutOption(req.timeout),
     body |-> NativeBody(req.body)]

\* send, up to the point where the future is returned
BuildRequest ==
    /\ stage = "new"
    /\ native' = NativeRequest(request)
    /\ reader' = IF native'.body.adapter = "StreamReader" THEN "Some" ELSE "None"
    /\ cursor' = IF native'.body.adapter = "SyncReader" THEN "Some" ELSE "None"
    /\ stage' = "built"
    /\ UNCHANGED <<src, pos, buf, log, request, exchange, output>>
    /\ UNCHANGED responseVars
    /\ UNCHANGED bridgeVars

\* variant: the cursor is borrowed, not taken, so it is read on every pull
SyncReaderPollNext_KeepCursor ==
    /\ Len(log) < MaxPulls
    /\ log' = Append(log, [read |-> NoRead, ret |-> NoRead, adv |-> 0, spare |-> 0,
                           item |-> IF cursor = "Some"
                                    THEN ReadyChunk(request.body.bytes)
                                    ELSE ReadyNone])
    /\ UNCHANGED <<src, pos, reader, buf>>
    /\ UNCHANGED <<request, native, cursor, exchange, output, stage>>
    /\ UNCHANGED responseVars
    /\ UNCHANGED bridgeVars

\* SyncReader::poll_next: the first pull reads the cursor to its end into
\* one chunk (reading an in-memory cursor does not fail), later pulls find
\* the cursor taken
SyncReaderPollNext ==
    /\ Len(log) < MaxPulls
    /\ log' = Append(log, [read |-> NoRead, ret |-> NoRead, adv |-> 0, spare |-> 0,
                           item |-> IF cursor = "Some"
                                    THEN ReadyChunk(request.body.bytes)
                                    ELSE ReadyNone])
    /\ cursor' = "None"
    /\ UNCHANGED <<src, pos, reader, buf>>
    /\ UNCHANGED <<request, native, exchange, output, stage>>
    /\ UNCHANGED responseVars
    /\ UNCHANGED bridgeVars

\* reqwest::Body::default(): an empty body, at its end from the start
EmptyBodyPollNext ==
    /\ Len(log) < MaxPulls
    /\ log' = Append(log, [read |-> NoRead, ret |-> NoRead, adv |-> 0, spare |-> 0,
                           item |-> ReadyNone])
    /\ UNCHANGED <<src, pos, reader, buf>>
    /\ UNCHANGED requestVars
    /\ UNCHANGED responseVars
    /\ UNCHANGED bridgeVars

\* the engine pulls the request body while it sends the request
PullBody ==
    /\ stage = "built"
    /\ CASE native.body.adapter = "StreamReader" -> poll_next
         [] native.body.adapter = "SyncReader" -> SyncReaderPollNext
         [] OTHER -> EmptyBodyPollNext

(***************************************************************************)
(* The engine, as far as send's options reach into it: a server that       *)
(* answers with `redirects` successive redirects and whose first byte      *)
(* takes `delay` time units.                                               *)
(***************************************************************************)
RedirectCounts == 0..MaxRedirects \cup {FollowAllLimit, FollowAllLimit + 1}

\* the request timeout fires: surely when the first byte comes later than
\* the timeout, possibly when it comes just then
TimesOut(nat, delay, atEdge) ==
    /\ nat.timeout.k = "timeout"
    /\ delay > nat.timeout.d \/ (delay = nat.timeout.d /\ atEdge)

\* the redirect policy gives up: Policy::limited(n) on a chain longer than
\* n; a client default the request did not override may give up anywhere
GivesUp(nat, redirects, atEdge) ==
    CASE nat.redirect.k = "limited" -> redirects > nat.redirect.n
      [] nat.redirect.k = "none" -> FALSE
      [] OTHER -> redirects > 0 /\ atEdge

\* what request.send().await yields
EngineOutcome(nat, redirects, delay, atEdge) ==
    CASE TimesOut(nat, delay, atEdge) ->
            [tag |-> "ReqwestError", forReq |-> 1, kind |-> "Timeout"]
      [] GivesUp(nat, redirects, atEdge) ->
            [tag |-> "ReqwestError", forReq |-> 1, kind |-> "TooManyRedirects"]
      [] OTHER ->
            [tag |-> "Response", forReq |-> 1,
             kind |-> IF nat.redirect.k = "none" /\ redirects > 0
                      THEN "redirect" ELSE "final"]

\* request.send().await completes
EngineResponds ==
    /\ stage = "built"
    /\ \E redirects \in RedirectCounts, delay \in 0..MaxDelay, atEdge \in BOOLEAN :
          exchange' = [redirects |-> redirects, delay |-> delay,
                       outcome |-> EngineOutcome(native, redirects, delay, atEdge)]
    /\ stage' = "answered"
    /\ UNCHANGED <<request, native, cursor, output>>
    /\ UNCHANGED streamVars
    /\ UNCHANGED responseVars
    /\ UNCHANGED bridgeVars

\* bytes a response chunk may hold
RespChunks == {<<>>, <<1>>, <<1, 2>>}

\* an item of response.bytes_stream(): a chunk or an engine error
RespItems ==
    {[tag |-> "Chunk", chunk |-> c] : c \in RespChunks} \cup {[tag |-> "Err", err |-> "reqwest"]}

RECURSIVE RespStreams(_)
RespStreams(n) ==
    IF n = 0 THEN {<<>>}
    ELSE LET S == RespStreams(n - 1)
         IN S \cup {Append(t, x) : t \in {u \in S : Len(u) = n - 1}, x \in RespItems}

\* a response whose body is empty
EmptyResp == [items |-> <<>>, pulled |-> 0]

\* variant: the whole body is collected before the future returns
RespAfterResolve_Eager(r) == [items |-> <<>>, pulled |-> r.pulled + Len(r.items)]

\* response.bytes_stream(): the stream is created, not polled
RespAfterResolve(r) == r

\* variant: the engine error is mapped to an empty chunk
MapErrItem_AsEmpty(x) ==
    IF x.tag = "Err" THEN [tag |-> "Chunk", chunk |-> <<>>] ELSE x

\* .map_err(..) on an item of the byte stream: the engine error becomes an
\* io::Error of kind Other that wraps it
MapErrItem(x) ==
    IF x.tag = "Err" THEN [tag |-> "Err", err |-> "io:Other", source |-> x.err] ELSE x

\* .into_async_read(): the reader starts without a chunk
IntoAsyncRead == [k |-> "PendingChunk", chunk |-> <<>>, start |-> 0]

\* IntoAsyncRead::poll_read with a destination of n bytes, on a stream that
\* is ready: returns what the read reports and the reader and stream after it
RECURSIVE IntoAsyncReadPoll(_, _, _)
IntoAsyncReadPoll(st, r, n) ==
    CASE st.k = "Ready" ->
            LET len == Min(n, Len(st.chunk) - st.start)
                st1 == IF st.start + len = Len(st.chunk) THEN IntoAsyncRead
                       ELSE [st EXCEPT !.start = @ + len]
            IN [ret |-> [tag |-> "Ok", bytes |-> SubSeq(st.chunk, st.start + 1, st.start + len)],
                st |-> st1, resp |-> r]
      [] st.k = "PendingChunk" ->
            IF r.items = <<>>
            THEN [ret |-> [tag |-> "Ok", bytes |-> <<>>],
                  st |-> [IntoAsyncRead EXCEPT !.k = "Eof"], resp |-> r]
            ELSE LET x == MapErrItem(Head(r.items))
                     r1 == [items |-> Tail(r.items), pulled |-> r.pulled + 1]
                 IN IF x.tag = "Err"
                    THEN [ret |-> x, st |-> [IntoAsyncRead EXCEPT !.k = "Eof"], resp |-> r1]
                    ELSE IF x.chunk = <<>>
                         THEN IntoAsyncReadPoll(st, r1, n)
                         ELSE IntoAsyncReadPoll([k |-> "Ready", chunk |-> x.chunk, start |-> 0],
                                                r1, n)
      [] OTHER -> [ret |-> [tag |-> "Ok", bytes |-> <<>>], st |-> st, resp |-> r]

(***************************************************************************)
(* The response head.  An http::HeaderMap keeps one entry per name, in the *)
(* order the names were first added, each with its values in the order     *)
(* they were added; iterating it yields one (name, value) pair per value.  *)
(***************************************************************************)
HeaderNames == {"a", "b"}
HeaderValues == {1, 2}

\* response.status(): a valid status code
StatusCodes == {[code |-> 200], [code |-> 404]}

\* HeaderMap::append(name, value)
HeaderMapAppend(m, name, value) ==
    IF \E i \in DOMAIN m : m[i].name = name
    THEN [i \in DOMAIN m |->
             IF m[i].name = name THEN [m[i] EXCEPT !.values = Append(@, value)] ELSE m[i]]
    ELSE Append(m, [name |-> name, values |-> <<value>>])

\* `for (name, value) in response.headers()`: the pairs the iteration yields
RECURSIVE HeaderMapIter(_)
HeaderMapIter(m) ==
    IF m = <<>> THEN <<>>
    ELSE [i \in 1..Len(Head(m).values) |->
             [name |-> Head(m).name, value |-> Head(m).values[i]]]
         \o HeaderMapIter(Tail(m))

\* header lines as they come off the wire
RECURSIVE WireHeaders(_)
WireHeaders(n) ==
    IF n = 0 THEN {<<>>}
    ELSE LET S == WireHeaders(n - 1)
         IN S \cup {Append(t, [name |-> h, value |-> v]) :
                        t \in {u \in S : Len(u) = n - 1}, h \in HeaderNames, v \in HeaderValues}

\* the header map the engine holds for a response with these header lines
RECURSIVE EngineHeaders(_)
EngineHeaders(lines) ==
    IF lines = <<>> THEN <<>>
    ELSE LET l == lines[Len(lines)]
         IN HeaderMapAppend(EngineHeaders(SubSeq(lines, 1, Len(lines) - 1)), l.name, l.value)

\* the heads an engine response may have
ResponseHeads ==
    [status : StatusCodes, headers : {EngineHeaders(w) : w \in WireHeaders(MaxHeaders)}]

\* the head of a response without header lines
PlainHead == [status |-> [code |-> 200], headers |-> <<>>]

\* StatusCode::as_u16
AsU16(st) == st.code

\* http::Response::builder()
BuilderNew == [status |-> 200, headers |-> <<>>, err |-> FALSE]

\* builder.status(n): a number that is no status code poisons the builder
BuilderStatus(b, n) ==
    IF b.err THEN b
    ELSE IF n >= 100 /\ n < 1000 THEN [b EXCEPT !.status = n] ELSE [b EXCEPT !.err = TRUE]

\* variant: the builder sets the header instead of appending to it
BuilderHeader_Insert(b, name, value) ==
    IF b.err THEN b
    ELSE IF \E i \in DOMAIN b.headers : b.headers[i].name = name
         THEN [b EXCEPT !.headers =
                  [i \in DOMAIN @ |->
                      IF @[i].name = name THEN [@[i] EXCEPT !.values = <<value>>] ELSE @[i]]]
         ELSE [b EXCEPT !.headers = Append(@, [name |-> name, values |-> <<value>>])]

\* builder.header(name, value)
BuilderHeader(b, name, value) ==
    IF b.err THEN b ELSE [b EXCEPT !.headers = HeaderMapAppend(@, name, value)]

\* the loop over response.headers()
RECURSIVE BuilderHeaders(_, _)
BuilderHeaders(b, entries) ==
    IF entries = <<>> THEN b
    ELSE BuilderHeaders(BuilderHeader(b, Head(entries).name, Head(entries).value),
                        Tail(entries))

\* the builder when send calls builder.body(..)
EnvelopeBuilder(h) ==
    BuilderHeaders(BuilderStatus(BuilderNew, AsU16(h.status)), HeaderMapIter(h.headers))

\* builder.body(body).map_err(..) on a poisoned builder
FromHttpError == [tag |-> "HttpError"]

\* the send future returns: an engine error through `?`, a response as the
\* envelope whose body reads from the response's byte stream
Resolve ==
    /\ stage = "answered"
    /\ IF exchange.outcome.tag = "Response"
       THEN LET b == EnvelopeBuilder(head)
            IN /\ output' = IF b.err THEN FromHttpError ELSE ResolveWith(exchange.outcome)
               /\ envHead' = IF b.err THEN NoVal
                             ELSE [status |-> b.status, headers |-> b.headers]
               /\ resp' = RespAfterResolve(resp)
               /\ envBody' = IF b.err THEN NoVal ELSE IntoAsyncRead
       ELSE /\ output' = ResolveWith(exchange.outcome)
            /\ UNCHANGED <<resp, envBody, envHead>>
    /\ UNCHANGED <<reads, head>>
    /\ stage' = "resolved"
    /\ UNCHANGED <<request, native, cursor, exchange>>
    /\ UNCHANGED streamVars
    /\ UNCHANGED bridgeVars

\* the caller reads the envelope's body into a buffer of n bytes; the
\* engine's stream may not be ready when the reader turns to it
ReadBody(n) ==
    /\ stage = "resolved"
    /\ output.tag = "Ok"
    /\ Len(reads) < MaxReads
    /\ \E ready \in BOOLEAN :
          IF ~ready /\ envBody.k = "PendingChunk"
          THEN /\ reads' = Append(reads, Pending)
               /\ UNCHANGED <<resp, envBody>>
          ELSE LET p == IntoAsyncReadPoll(envBody, resp, n)
               IN /\ reads' = Append(reads, p.ret)
                  /\ envBody' = p.st
                  /\ resp' = p.resp
    /\ UNCHANGED <<head, envHead>>
    /\ UNCHANGED requestVars
    /\ UNCHANGED streamVars
    /\ UNCHANGED bridgeVars

(***************************************************************************)
(* Specifications.                                                         *)
(***************************************************************************)
\* no transport in the picture
NoBridge ==
    /\ transport = "alive"
    /\ tokio_tx = "None"
    /\ thread = "None"
    /\ receiver = "None"
    /\ queue = <<>>
    /\ tasks = <<>>
    /\ fut = [r \in Reqs |-> "none"]
    /\ chan = [r \in Reqs |-> NoChan]
    /\ result = [r \in Reqs |-> NoVal]
    /\ sends = [r \in Reqs |-> 0]
    /\ has_tokio = TRUE
    /\ ctor = NoVal
    /\ engine = [r \in Reqs |-> NoEngine]

\* no request in the picture
NoRequest ==
    /\ request = NoVal
    /\ native = NoVal
    /\ cursor = "None"
    /\ exchange = NoVal
    /\ output = NoVal
    /\ stage = "new"
    /\ resp = EmptyResp
    /\ envBody = NoVal
    /\ reads = <<>>
    /\ head = PlainHead
    /\ envHead = NoVal

\* StreamReader::new over a source of at most MaxLen bytes
StreamInit ==
    /\ src \in SeqsUpTo(MaxLen)
    /\ pos = 0
    /\ reader = "Some"
    /\ buf = BytesMutNew
    /\ log = <<>>
    /\ NoBridge
    /\ NoRequest

StreamNext == poll_next

StreamSpec == StreamInit /\ [][StreamNext]_vars

\* a ReqwestClient just constructed, with or without a tokio runtime around
BridgeInit ==
    /\ src = <<>>
    /\ pos = 0
    /\ reader = "Some"
    /\ buf = BytesMutNew
    /\ log = <<>>
    /\ transport = "alive"
    /\ NoRequest
    /\ has_tokio \in BOOLEAN
    /\ ctor = NoVal
    /\ tokio_tx = ClientFrom(has_tokio).tokio_tx
    /\ thread = ClientFrom(has_tokio).thread
    /\ receiver = ClientFrom(has_tokio).receiver
    /\ queue = <<>>
    /\ tasks = <<>>
    /\ fut = [r \in Reqs |-> "none"]
    /\ chan = [r \in Reqs |-> NoChan]
    /\ result = [r \in Reqs |-> NoVal]
    /\ sends = [r \in Reqs |-> 0]
    /\ engine = [r \in Reqs |-> NoEngine]

BridgeNext ==
    \/ Send
    \/ \E r \in Reqs : FutPollSend(r)
    \/ \E r \in Reqs : FutPollRecv(r)
    \/ \E r \in Reqs : FutPollInline(r)
    \/ \E r \in Reqs : FutInlineDone(r)
    \/ \E r \in Reqs : FutDrop(r)
    \/ DropTransport
    \/ ThreadStart
    \/ BgRecv
    \/ BgExit
    \/ \E i \in DOMAIN tasks : EngineDone(i)
    \/ \E i \in DOMAIN tasks : TaskReply(i)

BridgeSpec == BridgeInit /\ [][BridgeNext]_vars

\* a constructor is about to be called, with or without a tokio runtime
\* around
ConstructInit ==
    /\ src = <<>>
    /\ pos = 0
    /\ reader = "Some"
    /\ buf = BytesMutNew
    /\ log = <<>>
    /\ NoRequest
    /\ transport = "none"
    /\ has_tokio \in BOOLEAN
    /\ ctor \in Constructors
    /\ tokio_tx = "None"
    /\ thread = "None"
    /\ receiver = "None"
    /\ queue = <<>>
    /\ tasks = <<>>
    /\ fut = [r \in Reqs |-> "none"]
    /\ chan = [r \in Reqs |-> NoChan]
    /\ result = [r \in Reqs |-> NoVal]
    /\ sends = [r \in Reqs |-> 0]
    /\ engine = [r \in Reqs |-> NoEngine]

ConstructNext ==
    \/ Construct
    \/ BridgeNext

ConstructSpec == ConstructInit /\ [][ConstructNext]_vars

\* one request, as handed to send
RequestInit ==
    /\ request \in [redirect : RedirectPolicies, timeout : ReadTimeouts,
                    other : BOOLEAN, body : Bodies]
    /\ src = request.body.bytes
    /\ pos = 0
    /\ reader = "None"
    /\ buf = BytesMutNew
    /\ log = <<>>
    /\ native = NoVal
    /\ cursor = "None"
    /\ exchange = NoVal
    /\ output = NoVal
    /\ stage = "new"
    /\ resp = EmptyResp
    /\ envBody = NoVal
    /\ reads = <<>>
    /\ head = PlainHead
    /\ envHead = NoVal
    /\ NoBridge

RequestNext ==
    \/ BuildRequest
    \/ PullBody
    \/ EngineResponds
    \/ Resolve

RequestSpec == RequestInit /\ [][RequestNext]_vars

\* the engine has answered a request: with an error, or with a response
\* head and a byte stream of at most MaxItems items
ResponseInit ==
    /\ request = [redirect |-> NoExt, timeout |-> NoExt, other |-> FALSE,
                  body |-> [k |-> "Empty", bytes |-> <<>>]]
    /\ native = NativeRequest(request)
    /\ src = <<>>
    /\ pos = 0
    /\ reader = "None"
    /\ buf = BytesMutNew
    /\ log = <<>>
    /\ cursor = "None"
    /\ \E timedOut \in BOOLEAN :
          exchange = [redirects |-> 0, delay |-> 0,
                      outcome |-> IF timedOut
                                  THEN [tag |-> "ReqwestError", forReq |-> 1, kind |-> "Timeout"]
                                  ELSE [tag |-> "Response", forReq |-> 1, kind |-> "final"]]
    /\ resp \in [items : RespStreams(MaxItems), pulled : {0}]
    /\ exchange.outcome.tag = "ReqwestError" => resp = EmptyResp
    /\ output = NoVal
    /\ stage = "answered"
    /\ envBody = NoVal
    /\ reads = <<>>
    /\ head \in ResponseHeads
    /\ exchange.outcome.tag = "ReqwestError" => head = PlainHead
    /\ envHead = NoVal
    /\ NoBridge

ResponseNext ==
    \/ Resolve
    \/ \E n \in 1..2 : ReadBody(n)

ResponseSpec == ResponseInit /\ [][ResponseNext]_vars

\* the engine call made for request r completes
EngineDoneFor(r) ==
    \E i \in DOMAIN tasks : tasks[i].req = r /\ EngineDone(i)

\* The background thread runs, its runtime polls every task that can make
\* progress, and the engine answers every request but request 1, whose call
\* may stay outstanding forever.  Callers are not obliged to poll or drop
\* their futures.
FairBridgeSpec ==
    /\ BridgeSpec
    /\ WF_vars(ThreadStart)
    /\ WF_vars(BgRecv)
    /\ WF_vars(BgExit)
    /\ \A i \in Reqs : WF_vars(TaskReply(i))
    /\ \A r \in Reqs \ {1} : WF_vars(EngineDoneFor(r))

\* As FairBridgeSpec, and the engine answers every request.
FairEngineSpec ==
    /\ FairBridgeSpec
    /\ WF_vars(EngineDoneFor(1))

\* As FairEngineSpec, and every caller keeps polling the future it awaits.
FairPollSpec ==
    /\ FairEngineSpec
    /\ \A r \in Reqs : WF_vars(FutPollRecv(r))

(***************************************************************************)
(* Properties of StreamReader (checked under StreamSpec).                  *)
(***************************************************************************)
Pulls == 1..Len(log)

RECURSIVE ConcatChunks(_)
ConcatChunks(n) ==
    IF n = 0 THEN <<>>
    ELSE IF log[n].item.tag = "Chunk"
         THEN ConcatChunks(n - 1) \o log[n].item.chunk
         ELSE ConcatChunks(n - 1)

\* the source reported end of input or an error at pull i
SourceEndedAt(i) ==
    \/ log[i].read.tag = "Err"
    \/ log[i].read.tag = "Ok" /\ log[i].read.k = 0

\* the stream reported end of input or an error at pull i
TerminalAt(i) == log[i].item.tag \in {"None", "Err"}

\* C1: once the stream has returned None, the Ok chunks emitted so far,
\* concatenated in emission order, are exactly the bytes of the source.
C1_ChunksEqualSource ==
    (Len(log) > 0 /\ log[Len(log)].item.tag = "None")
        => ConcatChunks(Len(log)) = src

\* C2: whenever the source's poll_read reported k bytes, poll_read_buf
\* returned Ok(k) and advanced the buffer's filled length by exactly k.
C2_ReadCountReported ==
    \A i \in Pulls :
        log[i].read.tag = "Ok"
            => log[i].ret = ReadyOk(log[i].read.k) /\ log[i].adv = log[i].read.k

\* C3: a pull that returned Pending leaves the adapter non-terminal, with
\* the reader still owned.
C3_PendingKeepsReader ==
    (Len(log) > 0 /\ log[Len(log)].item.tag = "Pending") => reader = "Some"

\* C4: once a pull has returned None or Some(Err), every later pull returns
\* None and the adapter holds no reader.
C4_TerminalIsFinal ==
    \A i \in Pulls :
        TerminalAt(i)
            => /\ \A j \in Pulls : j > i => log[j].item = ReadyNone
               /\ reader = "None"

C4_Witness ==
    /\ Len(log) = MaxPulls
    /\ log[1].item.tag = "Err"
    /\ log[2].item = ReadyNone
    /\ log[MaxPulls].item = ReadyNone

\* C5: after the source has reported a zero-byte read or a read error, no
\* later pull reads from it, and the reader is dropped at that pull.
C5_NoReadAfterEnd ==
    \A i \in Pulls :
        SourceEndedAt(i)
            => /\ \A j \in Pulls : j > i => log[j].read = NoRead
               /\ reader = "None"

C5_Witness ==
    /\ Len(log) >= 3
    /\ log[1].read.tag = "Ok" /\ log[1].read.k = 0
    /\ log[3].read = NoRead

\* C6: a failed source read surfaces as Some(Err(e)) with that same error on
\* that pull; the stream yields at most one error item and only None after it.
C6_ErrorOnce ==
    /\ \A i \in Pulls :
          log[i].read.tag = "Err" => log[i].item = ReadyErr(log[i].read.err)
    /\ Cardinality({i \in Pulls : log[i].item.tag = "Err"}) <= 1
    /\ \A i, j \in Pulls :
          (log[i].item.tag = "Err" /\ j > i) => log[j].item = ReadyNone

C6_Witness ==
    /\ Len(log) >= 2
    /\ log[1].read = [tag |-> "Err", err |-> "e2"]
    /\ log[1].item = ReadyErr("e2")
    /\ log[2].item = ReadyNone

(***************************************************************************)
(* Properties of the bridge (checked under BridgeSpec / FairBridgeSpec).   *)
(***************************************************************************)
ThreadExited == thread \in {"exitedOk", "exitedErr"}

TaskIds == DOMAIN tasks

\* request r sits in the mpsc channel
Queued(r) == \E i \in 1..Len(queue) : queue[i].req = r

\* request a was enqueued before request b and its engine call is outstanding
OutstandingBefore(a, b) ==
    \/ \E i \in TaskIds : tasks[i].req = a /\ tasks[i].st = "running"
    \/ \E i, j \in 1..Len(queue) : i < j /\ queue[i].req = a /\ queue[j].req = b

\* C7: a send future that resolves with an engine result (response or engine
\* error) resolves with the result the engine produced for its own request.
C7_OwnResult ==
    \A r \in Reqs :
        (fut[r] = "resolved" /\ result[r].tag \in {"Ok", "EngineErr"})
            => result[r].forReq = r

C7_Witness ==
    /\ tokio_tx = "Some"
    /\ fut[1] = "awaiting" /\ \E i \in TaskIds : tasks[i].req = 1 /\ tasks[i].st = "running"
    /\ fut[2] = "resolved" /\ result[2] = [tag |-> "Ok", forReq |-> 2]

\* C8: every one-shot channel receives at most one reply, sent by the one
\* task spawned for the request it was enqueued with and carrying that
\* request's engine result; a task that ran to completion sent exactly once.
C8_ReplyOnce ==
    /\ \A c \in Reqs :
          /\ sends[c] <= 1
          /\ Cardinality({i \in TaskIds : tasks[i].chan = c}) <= 1
          /\ chan[c].val # NoVal => (sends[c] = 1 /\ chan[c].val.forReq = c)
          /\ sends[c] = 1 => \E i \in TaskIds :
                                tasks[i].chan = c /\ tasks[i].req = c /\ tasks[i].st = "done"
    /\ \A i \in TaskIds :
          /\ tasks[i].sends <= 1
          /\ tasks[i].st = "done" <=> tasks[i].sends = 1

C8_Witness ==
    /\ sends[1] = 1
    /\ chan[1].val \in EngineResults(1)
    /\ \E i \in TaskIds : tasks[i].chan = 1 /\ tasks[i].st = "done" /\ tasks[i].sends = 1

\* C9: with request 1 enqueued earlier and its engine call outstanding
\* (possibly forever), a later request sitting in the channel of the running
\* thread is still dequeued, executed and replied to, unless its caller gives
\* it up by dropping the future.
C9_NotSerialized ==
    \A r \in Reqs \ {1} :
        [](  (thread = "running" /\ Queued(r) /\ OutstandingBefore(1, r))
          => <>(sends[r] = 1 \/ fut[r] = "dropped"))

C9_Witness ==
    /\ Len(tasks) >= 2
    /\ tasks[1].req = 1 /\ tasks[1].st = "running" /\ fut[1] = "awaiting"
    /\ tasks[2].req = 2 /\ tasks[2].st = "done" /\ sends[2] = 1
    /\ fut[2] # "dropped"

\* no send future is left that holds a clone of the channel sender
NoSendFutures == \A r \in Reqs : fut[r] \notin {"created", "awaiting"}

\* C10 as stated: once the bridge-backed transport is dropped, the
\* background thread eventually terminates.
C10_DropTerminates ==
    (transport = "dropped" /\ tokio_tx = "Some") ~> ThreadExited

\* C10, amended: once the bridge-backed transport is dropped and no send
\* future created from it is left unresolved and undropped, the background
\* thread eventually terminates.
C10_DropAllTerminates ==
    (transport = "dropped" /\ tokio_tx = "Some" /\ NoSendFutures) ~> ThreadExited

C10_Witness ==
    /\ transport = "dropped"
    /\ tokio_tx = "Some"
    /\ thread = "exitedOk"
    /\ Len(tasks) >= 1

\* request r is queued or has a task that has not finished
Outstanding(r) ==
    \/ Queued(r)
    \/ \E i \in TaskIds : tasks[i].req = r /\ tasks[i].st \in {"running", "ready"}

\* C11: the transport has no sender and no thread exactly when a tokio
\* runtime was current at construction; otherwise it has one sender, and one
\* thread that owns the one receiver; never more than one thread.
C11_BridgeIffNoRuntime ==
    /\ has_tokio <=> (tokio_tx = "None" /\ thread = "None")
    /\ has_tokio => receiver = "None" /\ queue = <<>> /\ tasks = <<>>
    /\ ~has_tokio =>
          /\ tokio_tx = "Some"
          /\ thread \in {"starting", "running", "exitedOk", "exitedErr"}
          /\ receiver = (IF ThreadExited THEN "dropped" ELSE "alive")

C11_Witness ==
    /\ ~has_tokio
    /\ thread = "running"
    /\ receiver = "alive"
    /\ fut[1] = "awaiting"

\* C12: an enqueue that fails because the receiver is gone resolves the
\* future at once with the channel's send error, which is not an engine
\* error; the request is never queued, spawned or handed to the engine.
C12_EnqueueFailure ==
    /\ [](\A r \in Reqs :
            result[r] = FromTrySendError
                => /\ fut[r] = "resolved"
                   /\ engine[r] = NoEngine
                   /\ ~Outstanding(r)
                   /\ \A i \in TaskIds : tasks[i].req # r
                   /\ \A e \in EngineResults(r) : ResolveWith(e) # result[r])
    /\ [][\A r \in Reqs :
            (/\ fut[r] = "created" /\ tokio_tx = "Some" /\ receiver # "alive"
             /\ fut'[r] \notin {"created", "dropped"})
                => fut'[r] = "resolved" /\ result'[r] = FromTrySendError]_vars

C12_Witness ==
    /\ thread = "exitedErr"
    /\ fut[1] = "resolved"
    /\ result[1] = FromTrySendError

\* C13: the engine result of a request whose future was dropped is stored
\* nowhere and resolves no future, and the reply that fails leaves the
\* thread, the channel, the other tasks, channels and futures as they were.
C13_DroppedDiscards ==
    /\ [](\A r \in Reqs :
            fut[r] = "dropped"
                => /\ chan[r].val = NoVal
                   /\ result[r] = NoVal
                   /\ \A q \in Reqs \ {r} :
                         result[q].tag \in {"Ok", "EngineErr"} => result[q].forReq # r)
    /\ [][\A i \in TaskIds :
            (/\ tasks[i].st = "ready" /\ tasks'[i].st = "done"
             /\ fut[tasks[i].chan] = "dropped")
                => /\ thread' = thread /\ queue' = queue /\ receiver' = receiver
                   /\ fut' = fut /\ result' = result
                   /\ \A j \in TaskIds \ {i} : tasks'[j] = tasks[j]
                   /\ \A c \in Reqs \ {tasks[i].chan} : chan'[c] = chan[c]]_vars

C13_Witness ==
    /\ fut[1] = "dropped"
    /\ sends[1] = 1
    /\ engine[1].res.tag = "Response"
    /\ thread = "running"
    /\ fut[2] = "resolved" /\ result[2] = [tag |-> "Ok", forReq |-> 2]

\* C14: after a send future is dropped, the request's background task does
\* not stay outstanding forever, even if its engine call never completes.
C14_DroppedTaskEnds ==
    \A r \in Reqs : (fut[r] = "dropped") ~> ~Outstanding(r)

\* C15: the engine is invoked at most once per send call, on the bridge for
\* a bridged transport and inline for an unbridged one, and not at all for a
\* call that ended in a channel error.
C15_EngineAtMostOnce ==
    \A r \in Reqs :
        /\ engine[r].inline + engine[r].bridge <= 1
        /\ tokio_tx = "Some" => engine[r].inline = 0
        /\ tokio_tx = "None" => engine[r].bridge = 0
        /\ result[r] \in {FromTrySendError, FromCanceled}
              => engine[r].inline + engine[r].bridge = 0

C15_Witness ==
    /\ tokio_tx = "Some"
    /\ result[1] = [tag |-> "EngineErr", forReq |-> 1]
    /\ engine[1] = [inline |-> 0, bridge |-> 1, res |-> [tag |-> "ReqwestError", forReq |-> 1]]
    /\ result[2] = FromTrySendError \/ fut[2] = "awaiting"

\* request r, awaited on the bridge, has failed
FailedAwaiting(r) ==
    /\ fut[r] = "awaiting"
    /\ chan[r].tx = "dropped" \/ engine[r].res.tag = "ReqwestError"

\* C16: a send future resolves with success only if the engine answered its
\* request with a response, and a future that keeps being polled resolves
\* once its request has failed.
C16_FailuresSurface ==
    /\ [](\A r \in Reqs :
            (fut[r] = "resolved" /\ result[r].tag = "Ok")
                => engine[r].res.tag = "Response")
    /\ \A r \in Reqs : FailedAwaiting(r) ~> (fut[r] \in {"resolved", "dropped"})

C16_Witness ==
    /\ fut[1] = "resolved" /\ result[1] = FromCanceled
    /\ fut[2] = "resolved" /\ result[2] = FromTrySendError

(***************************************************************************)
(* Properties of send (checked under RequestSpec / ResponseSpec).          *)
(***************************************************************************)
\* C17: FollowLimit(n) reaches the engine as a redirect limit of exactly n
\* and NoFollow as "follow none"; a chain longer than n ends the send in an
\* error, a TooManyRedirects error unless the request timed out first, and
\* under NoFollow a redirect is returned, not followed.
C17_RedirectLimit ==
    /\ (native # NoVal /\ request.redirect.k = "FollowLimit")
          => native.redirect = [k |-> "limited", n |-> request.redirect.n]
    /\ (native # NoVal /\ request.redirect.k = "NoFollow")
          => native.redirect = [k |-> "none"]
    /\ (output # NoVal /\ request.redirect.k = "FollowLimit"
            /\ exchange.redirects > request.redirect.n)
          => /\ output.tag = "EngineErr"
             /\ output.kind = "TooManyRedirects"
                   \/ (output.kind = "Timeout" /\ request.timeout.k = "ReadTimeout"
                          /\ exchange.delay >= request.timeout.d)
    /\ (output # NoVal /\ request.redirect.k = "NoFollow" /\ exchange.redirects > 0
            /\ output.tag = "Ok")
          => exchange.outcome.kind = "redirect"

C17_Witness ==
    /\ request.redirect = [k |-> "FollowLimit", n |-> 2]
    /\ stage = "resolved"
    /\ exchange.redirects = 3
    /\ output.tag = "EngineErr" /\ output.kind = "TooManyRedirects"

\* C18: ReadTimeout(d) reaches the engine as a timeout of d, and a first
\* byte that comes later than d ends the send in a timeout error.
C18_ReadTimeout ==
    /\ (native # NoVal /\ request.timeout.k = "ReadTimeout")
          => native.timeout = [k |-> "timeout", d |-> request.timeout.d]
    /\ (output # NoVal /\ request.timeout.k = "ReadTimeout"
            /\ exchange.delay > request.timeout.d)
          => output.tag = "EngineErr" /\ output.kind = "Timeout"

C18_Witness ==
    /\ request.timeout = [k |-> "ReadTimeout", d |-> 1]
    /\ stage = "resolved"
    /\ exchange.delay = 3
    /\ output.tag = "EngineErr" /\ output.kind = "Timeout"

\* C19: for an Empty body the engine request has the empty body, no
\* StreamReader or SyncReader exists, and every pull of the body, the first
\* included, reports end of input without a read.
C19_EmptyBody ==
    (native # NoVal /\ request.body.k = "Empty")
        => /\ native.body = [k |-> "empty", adapter |-> "none"]
           /\ reader = "None"
           /\ cursor = "None"
           /\ \A i \in Pulls : log[i].item = ReadyNone /\ log[i].read = NoRead

C19_Witness ==
    /\ request.body.k = "Empty"
    /\ stage = "resolved"
    /\ Len(log) >= 1
    /\ log[1].item = ReadyNone

\* C20: the send future returns the envelope without having pulled an item
\* of the engine's byte stream, and items are pulled from it only by reads
\* of the envelope's body.
C20_LazyBody ==
    /\ []((stage = "resolved" /\ reads = <<>>) => resp.pulled = 0)
    /\ [][resp'.pulled # resp.pulled => Len(reads') = Len(reads) + 1]_vars

C20_Witness ==
    /\ stage = "resolved"
    /\ output.tag = "Ok"
    /\ Len(reads) = 1 /\ reads[1] = [tag |-> "Ok", bytes |-> <<1>>]
    /\ resp.pulled = 1
    /\ Len(resp.items) = 1

\* C21: extension entries other than RedirectPolicy and ReadTimeout do not
\* reach the engine request: the request that differs only in them builds the
\* same engine request, and with neither recognized entry the engine request
\* carries no redirect policy and no timeout of its own.
C21_OtherExtensionsIgnored ==
    native # NoVal
        => /\ \A o \in BOOLEAN : native = NativeRequest([request EXCEPT !.other = o])
           /\ (request.redirect = NoExt /\ request.timeout = NoExt)
                 => native.redirect = [k |-> "unset"] /\ native.timeout = [k |-> "unset"]

C21_Witness ==
    /\ stage = "resolved"
    /\ request.other
    /\ request.redirect = NoExt /\ request.timeout = NoExt
    /\ native.redirect = [k |-> "unset"] /\ native.timeout = [k |-> "unset"]
    /\ output.tag = "Ok"

\* C22: the envelope of a successful send carries the engine response's
\* status code, and its header map yields the same (name, value) pairs in the
\* same order as the engine response's, a name's several values all kept.
C22_HeadPreserved ==
    (stage = "resolved" /\ exchange.outcome.tag = "Response")
        => /\ output.tag = "Ok"
           /\ envHead.status = head.status.code
           /\ HeaderMapIter(envHead.headers) = HeaderMapIter(head.headers)
           /\ \A i \in DOMAIN head.headers :
                 \E j \in DOMAIN envHead.headers :
                    /\ envHead.headers[j].name = head.headers[i].name
                    /\ envHead.headers[j].values = head.headers[i].values

C22_Witness ==
    /\ stage = "resolved"
    /\ output.tag = "Ok"
    /\ head.status.code = 404
    /\ envHead.status = 404
    /\ HeaderMapIter(envHead.headers) =
          << [name |-> "b", value |-> 2], [name |-> "b", value |-> 1],
             [name |-> "a", value |-> 1] >>

\* C23: on a transport without a bridge a polled send runs the engine call
\* in the caller's context, and no one-shot channel, queued message or
\* background task ever exists; on a transport with a bridge a polled send
\* creates its one-shot channel and enqueues (or fails to), and the engine
\* call is never made in the caller's context.
C23_DispatchByBridge ==
    /\ [](tokio_tx = "None"
            => /\ queue = <<>> /\ tasks = <<>>
               /\ \A r \in Reqs :
                     /\ chan[r] = NoChan /\ sends[r] = 0
                     /\ fut[r] # "awaiting"
                     /\ engine[r].bridge = 0
                     /\ fut[r] \in {"inline", "resolved"} => engine[r].inline = 1)
    /\ [](tokio_tx = "Some"
            => \A r \in Reqs :
                  /\ fut[r] # "inline"
                  /\ engine[r].inline = 0
                  /\ fut[r] \in {"awaiting", "resolved"} => chan[r] # NoChan
                  /\ result[r].tag \in {"Ok", "EngineErr"} => engine[r].bridge = 1)
    /\ [][\A r \in Reqs :
            (fut[r] = "created" /\ fut'[r] \notin {"created", "dropped"})
                => IF tokio_tx = "Some"
                   THEN /\ chan[r] = NoChan /\ chan'[r] # NoChan
                        /\ fut'[r] = "awaiting" => Len(queue') = Len(queue) + 1
                        /\ engine'[r] = NoEngine
                   ELSE /\ fut'[r] = "inline"
                        /\ engine'[r].inline = 1
                        /\ chan' = chan /\ queue' = queue]_vars

C23_Witness ==
    /\ tokio_tx = "None"
    /\ fut[1] = "resolved" /\ result[1] = [tag |-> "Ok", forReq |-> 1]
    /\ engine[1] = [inline |-> 1, bridge |-> 0, res |-> [tag |-> "Response", forReq |-> 1]]
    /\ fut[2] = "inline"
    /\ chan = [r \in Reqs |-> NoChan]

(***************************************************************************)
(* Properties of StreamReader's buffer (checked under StreamSpec).         *)
(***************************************************************************)
\* C24: every read is issued with spare capacity to write into, and
\* poll_read_buf reports a zero-byte read only when the source itself
\* reported zero bytes.
C24_ReadsHaveSpare ==
    \A i \in Pulls :
        log[i].read # NoRead
            => /\ log[i].spare > 0
               /\ log[i].ret = ReadyOk(0)
                     => log[i].read.tag = "Ok" /\ log[i].read.k = 0

\* C25: a pull whose read brought bytes emits exactly those bytes as its
\* chunk and leaves no filled byte in the buffer; every chunk is the bytes
\* of its own pull's read.
C25_ChunkIsRead ==
    /\ \A i \in Pulls :
          /\ log[i].item.tag = "Chunk"
                => log[i].read.tag = "Ok" /\ log[i].item.chunk = log[i].read.bytes
          /\ (log[i].read.tag = "Ok" /\ log[i].read.k > 0)
                => log[i].item = ReadyChunk(log[i].read.bytes)
    /\ (Len(log) > 0 /\ log[Len(log)].item.tag = "Chunk") => buf.len = 0

\* C26: a read of zero bytes ends the stream with None, and a chunk is never
\* empty and never longer than the spare capacity its read was given.
C26_ChunkLength ==
    \A i \in Pulls :
        /\ (log[i].read.tag = "Ok" /\ log[i].read.k = 0) => log[i].item = ReadyNone
        /\ log[i].ret = ReadyOk(0) => log[i].item = ReadyNone
        /\ log[i].item.tag = "Chunk"
              => Len(log[i].item.chunk) >= 1 /\ Len(log[i].item.chunk) <= log[i].spare

C26_Witness ==
    /\ Len(log) >= 2
    /\ log[1].spare = DEFAULT_CAPACITY
    /\ log[1].read.tag = "Ok" /\ log[1].read.k = 0
    /\ log[1].item = ReadyNone
    /\ log[2].item = ReadyNone

\* C27: the stream over an in-memory body yields the whole body as one Ok
\* chunk on its first pull, empty if the body is empty, and None on every
\* later pull; no pull returns Pending.
C27_SyncReaderOneChunk ==
    (native # NoVal /\ request.body.k = "SyncReader")
        => /\ native.body = [k |-> "stream", adapter |-> "SyncReader"]
           /\ cursor = (IF log = <<>> THEN "Some" ELSE "None")
           /\ \A i \in Pulls :
                 /\ log[i].item # Pending
                 /\ log[i].item = (IF i = 1 THEN ReadyChunk(request.body.bytes)
                                   ELSE ReadyNone)

C27_Witness ==
    /\ request.body = [k |-> "SyncReader", bytes |-> <<1, 2>>]
    /\ Len(log) = 3
    /\ log[1].item = ReadyChunk(<<1, 2>>)
    /\ log[2].item = ReadyNone
    /\ log[3].item = ReadyNone

(***************************************************************************)
(* Further properties of the bridge.                                       *)
(***************************************************************************)
\* C28: a send future that awaits a reply whose one-shot sender was dropped
\* unused resolves, once polled, with the cancellation error and not with a
\* success; it does not stay pending.
C28_CanceledResolves ==
    /\ \A r \in Reqs :
          (fut[r] = "awaiting" /\ chan[r].tx = "dropped")
              ~> (fut[r] = "dropped" \/ (fut[r] = "resolved" /\ result[r] = FromCanceled))
    /\ [](\A r \in Reqs :
            result[r] = FromCanceled
                => /\ fut[r] = "resolved"
                   /\ sends[r] = 0
                   /\ chan[r].tx = "dropped"
                   /\ result[r].tag # "Ok")

C28_Witness ==
    /\ thread = "exitedErr"
    /\ fut[1] = "resolved" /\ result[1] = FromCanceled
    /\ sends[1] = 0
    /\ fut[2] = "awaiting" /\ chan[2].tx = "dropped"

\* C29 as stated: the background thread does not exit while a send future
\* created from the transport is unresolved and undropped.
C29_NoExitWhileFutures ==
    [][(~ThreadExited /\ ThreadExited') => NoSendFutures]_vars

\* C29, amended: the background thread has not left its receive loop while
\* a send future created from the transport is unresolved and undropped;
\* when the loop has seen the channel closed, no caller awaits a reply and
\* no enqueued request is left in the channel.
C29_NoLoopExitWhileFutures ==
    thread = "exitedOk"
        => /\ NoSendFutures
           /\ queue = <<>>
           /\ transport = "dropped"
           /\ \A r \in Reqs : ~Queued(r) /\ fut[r] # "awaiting"

C29_Witness ==
    /\ thread = "exitedOk"
    /\ fut[1] = "resolved" /\ result[1] = [tag |-> "Ok", forReq |-> 1]
    /\ fut[2] = "dropped"
    /\ \E i \in TaskIds : tasks[i].req = 2 /\ tasks[i].st = "cancelled"

\* the requests enqueued so far, in the order they were enqueued, as long
\* as the channel is first-in first-out: those spawned, then those queued
EnqueueOrder ==
    [i \in 1..(Len(tasks) + Len(queue)) |->
        IF i <= Len(tasks) THEN tasks[i].req ELSE queue[i - Len(tasks)].req]

\* request r has been spawned as a task
Spawned(r) == \E i \in TaskIds : tasks[i].req = r

\* C30: a request in the channel of the running thread is eventually
\* dequeued and spawned, and one queued before the thread runs is spawned
\* unless the thread fails to start; requests are spawned in the order
\* enqueued, each as one task, none dropped and none spawned twice.
C30_FifoSpawn ==
    /\ \A r \in Reqs : (thread = "running" /\ Queued(r)) ~> Spawned(r)
    /\ \A r \in Reqs : Queued(r) ~> (Spawned(r) \/ thread = "exitedErr")
    /\ [](\A r \in Reqs :
            /\ Cardinality({i \in DOMAIN EnqueueOrder : EnqueueOrder[i] = r}) <= 1
            /\ engine[r].bridge = Cardinality({i \in TaskIds : tasks[i].req = r})
            /\ (fut[r] = "awaiting" /\ thread # "exitedErr") => (Queued(r) \/ Spawned(r)))
    /\ [][\/ EnqueueOrder' = EnqueueOrder
          \/ \E r \in Reqs : EnqueueOrder' = Append(EnqueueOrder, r) /\ tasks' = tasks
          \/ thread' = "exitedErr"]_vars

C30_Witness ==
    /\ thread = "running"
    /\ queue = <<>>
    /\ Len(tasks) = 2
    /\ tasks[1].req = 2 /\ tasks[2].req = 1
    /\ fut[1] = "awaiting" /\ fut[2] = "awaiting"

\* request r has not been dispatched: no one-shot channel, no message, no
\* task and no engine call exists for it
Undispatched(r) ==
    /\ chan[r] = NoChan
    /\ ~Queued(r)
    /\ \A i \in TaskIds : tasks[i].req # r
    /\ engine[r] = NoEngine
    /\ sends[r] = 0

\* C31: the call of send enqueues nothing and invokes no engine; a future
\* not yet polled has dispatched nothing, and one dropped unpolled never
\* dispatches.
C31_LazyDispatch ==
    /\ [](\A r \in Reqs : fut[r] \in {"none", "created"} => Undispatched(r))
    /\ [][\A r \in Reqs :
            (fut[r] = "none" /\ fut'[r] = "created")
                => /\ queue' = queue /\ tasks' = tasks /\ chan' = chan
                   /\ engine' = engine /\ result' = result]_vars
    /\ [][\A r \in Reqs :
            (Undispatched(r) /\ fut'[r] = "dropped") => Undispatched(r)']_vars

C31_Witness ==
    /\ tokio_tx = "Some"
    /\ thread = "running"
    /\ fut[1] = "dropped" /\ Undispatched(1)
    /\ fut[2] = "resolved" /\ result[2] = [tag |-> "Ok", forReq |-> 2]

\* ReqwestClient._thread is Some
HasThreadHandle == thread # "None"

\* C32: the transport has the channel sender exactly when it has the thread
\* handle, and no step, whether a send, a poll or drop of a send future or
\* a step of the thread, gives or takes either.
C32_ModeFixed ==
    /\ [](tokio_tx = "Some" <=> HasThreadHandle)
    /\ [](tokio_tx = "Some" <=> ~has_tokio)
    /\ [][/\ tokio_tx' = tokio_tx
          /\ HasThreadHandle' <=> HasThreadHandle
          /\ has_tokio' = has_tokio]_vars

C32_Witness ==
    /\ tokio_tx = "Some"
    /\ HasThreadHandle
    /\ thread = "running"
    /\ fut[1] = "dropped"
    /\ fut[2] = "resolved" /\ result[2].tag = "EngineErr"

(***************************************************************************)
(* Further properties of the response body (checked under ResponseSpec).   *)
(***************************************************************************)
\* the bytes the body's consumer has been given so far
RECURSIVE Delivered(_)
Delivered(n) ==
    IF n = 0 THEN <<>>
    ELSE IF reads[n].tag = "Ok" THEN Delivered(n - 1) \o reads[n].bytes
         ELSE Delivered(n - 1)

\* the bytes of the chunks that come before the first error of a stream
RECURSIVE BytesBeforeErr(_)
BytesBeforeErr(items) ==
    IF items = <<>> \/ Head(items).tag = "Err" THEN <<>>
    ELSE Head(items).chunk \o BytesBeforeErr(Tail(items))

\* the bytes the reader holds of a chunk it has not handed out whole
Buffered ==
    IF envBody # NoVal /\ envBody.k = "Ready"
    THEN SubSeq(envBody.chunk, envBody.start + 1, Len(envBody.chunk))
    ELSE <<>>

\* the engine's bytes up to its first error: those delivered, those held by
\* the reader, and those still to come unless the reader is at its end
BytesUpToErr ==
    Delivered(Len(reads)) \o Buffered
        \o (IF envBody # NoVal /\ envBody.k = "Eof" THEN <<>> ELSE BytesBeforeErr(resp.items))

\* the items of the engine's stream that the step just taken pulled
PulledNow == SubSeq(resp.items, 1, resp'.pulled - resp.pulled)

\* C33: a read that pulls an engine error from the byte stream returns an
\* I/O error of kind Other that wraps it, with every byte of the chunks
\* before it delivered by then; the bytes delivered are the engine's, in
\* order; and the resolved send keeps its success envelope.
C33_BodyErrorSurfaces ==
    /\ [][BytesUpToErr' = BytesUpToErr]_vars
    /\ [][(\E i \in DOMAIN PulledNow : PulledNow[i].tag = "Err")
            => /\ reads'[Len(reads')] =
                     [tag |-> "Err", err |-> "io:Other", source |-> "reqwest"]
               /\ Delivered(Len(reads))' = BytesUpToErr
               /\ output' = output /\ output.tag = "Ok"]_vars
    /\ [][stage = "resolved" => output' = output /\ envHead' = envHead]_vars
    /\ [](\A i \in DOMAIN reads :
            reads[i].tag = "Err" => \A j \in DOMAIN reads : j > i => reads[j].tag # "Err")

C33_Witness ==
    /\ stage = "resolved"
    /\ output.tag = "Ok"
    /\ Len(reads) = 3
    /\ reads[1] = [tag |-> "Ok", bytes |-> <<1>>]
    /\ reads[2] = [tag |-> "Ok", bytes |-> <<2>>]
    /\ reads[3] = [tag |-> "Err", err |-> "io:Other", source |-> "reqwest"]
    /\ resp.pulled = 2

(***************************************************************************)
(* Properties of construction (checked under ConstructSpec).               *)
(***************************************************************************)
\* the user-agent string holds a control character other than a tab
Malformed(agent) ==
    \E i \in DOMAIN agent : agent[i] # 9 /\ (agent[i] < 32 \/ agent[i] = 127)

\* no channel, thread, future or task exists
NothingConstructed ==
    /\ tokio_tx = "None" /\ thread = "None" /\ receiver = "None"
    /\ queue = <<>> /\ tasks = <<>>
    /\ \A r \in Reqs : fut[r] = "none" /\ chan[r] = NoChan

\* C34: user_agent and proxy_and_user_agent called with a malformed
\* user-agent value return an error from the call itself and leave no
\* client, channel or thread behind, then or later.
C34_MalformedAgentFails ==
    /\ [][(transport = "none" /\ transport' # "none"
             /\ ctor.fn # "new" /\ Malformed(ctor.agent))
            => transport' = "failed" /\ NothingConstructed']_vars
    /\ []((transport # "none" /\ ctor.fn # "new" /\ Malformed(ctor.agent))
            => transport = "failed")
    /\ [](transport \in {"none", "failed"} => NothingConstructed)

C34_Witness ==
    /\ transport = "failed"
    /\ ctor = [fn |-> "proxy_and_user_agent", agent |-> <<65, 10>>]
    /\ ~has_tokio
    /\ NothingConstructed

(***************************************************************************)
(* Further properties of send's options (checked under RequestSpec).       *)
(***************************************************************************)
\* C35: FollowAll reaches the engine as a redirect limit of FollowAllLimit;
\* a chain longer than that ends the send in a TooManyRedirects error
\* (unless the request timed out first), a chain up to it is followed.
C35_FollowAllBounded ==
    /\ (native # NoVal /\ request.redirect.k = "FollowAll")
          => native.redirect = [k |-> "limited", n |-> FollowAllLimit]
    /\ (output # NoVal /\ request.redirect.k = "FollowAll"
            /\ exchange.redirects > FollowAllLimit)
          => /\ output.tag = "EngineErr"
             /\ output.kind = "TooManyRedirects"
                   \/ (output.kind = "Timeout" /\ request.timeout.k = "ReadTimeout"
                          /\ exchange.delay >= request.timeout.d)
    /\ (output # NoVal /\ request.redirect.k = "FollowAll"
            /\ exchange.redirects <= FollowAllLimit /\ output.tag = "EngineErr")
          => output.kind = "Timeout"

C35_Witness ==
    /\ request.redirect = [k |-> "FollowAll"]
    /\ request.timeout = NoExt
    /\ stage = "resolved"
    /\ exchange.redirects = FollowAllLimit + 1
    /\ output.tag = "EngineErr" /\ output.kind = "TooManyRedirects"

(***************************************************************************)
(* The thread that cannot build its runtime (checked under FairPollSpec).  *)
(***************************************************************************)
\* C36: a thread that failed to build its runtime has received nothing and
\* spawned nothing, and no engine call is ever made; a request enqueued
\* before the failure resolves, once polled, with the cancellation error,
\* one polled after it resolves at once with the send error.
C36_BuildFailure ==
    /\ [](thread = "exitedErr"
            => /\ tasks = <<>> /\ queue = <<>> /\ receiver = "dropped"
               /\ \A r \in Reqs :
                     /\ engine[r] = NoEngine /\ sends[r] = 0
                     /\ fut[r] = "resolved"
                           => result[r] \in {FromTrySendError, FromCanceled})
    /\ \A r \in Reqs :
          (thread = "exitedErr" /\ fut[r] = "awaiting")
              ~> (fut[r] = "dropped" \/ (fut[r] = "resolved" /\ result[r] = FromCanceled))
    /\ [][\A r \in Reqs :
            (/\ thread = "exitedErr" /\ fut[r] = "created"
             /\ fut'[r] \notin {"created", "dropped"})
                => fut'[r] = "resolved" /\ result'[r] = FromTrySendError]_vars

C36_Witness ==
    /\ thread = "exitedErr"
    /\ tasks = <<>>
    /\ fut[1] = "resolved" /\ result[1] = FromTrySendError
    /\ fut[2] = "resolved" /\ result[2] = FromCanceled
    /\ engine = [r \in Reqs |-> NoEngine]

====
